---- MODULE Spec2Model ----
(***************************************************************************)
(* State-machine model of the SokobanGame component                        *)
(* (src/src/components/sokoban-game.tsx).                                  *)
(*                                                                         *)
(* The component state is the four useState cells currentLevelIndex, grid, *)
(* moves and isCompleted, plus the levels prop.  Every handler (move,      *)
(* moveToCell, nextLevel, resetLevel) is one action; the useEffect that    *)
(* reloads the level after currentLevelIndex changed is a separate step,   *)
(* because React commits a render between the handler and the effect.      *)
(*                                                                         *)
(* Positions are 0-based as in the source; a grid is a sequence of rows,   *)
(* so the source's grid[r][c] is grid[r + 1][c + 1] here (see CellAt).     *)
(***************************************************************************)
EXTENDS Integers, Sequences, FiniteSets, TLC

VARIABLES
    levels,             \* the levels prop (line 22), fixed for a session
    currentLevelIndex,  \* useState(0), line 24
    grid,               \* useState<Cell[][]>([]), line 25
    moves,              \* useState(0), line 26
    isCompleted,        \* useState(false), line 27
    effectPending,      \* the useEffect of lines 29-33 is scheduled, not yet run
    loadedIndex,        \* history: index last passed to loadLevel, -1 before
    last,               \* history: the last handler call, its input, its
                        \* return value and the state it started from
    pathCall,           \* history: the last direct findPath call, its
                        \* arguments and its result
    winCall             \* history: the last direct checkWin call and result

vars == <<levels, currentLevelIndex, grid, moves, isCompleted, effectPending,
          loadedIndex, last, pathCall, winCall>>

\* the records of the direct calls of findPath and checkWin
pureCalls == <<pathCall, winCall>>

gameVars == <<levels, currentLevelIndex, grid, moves, isCompleted,
              effectPending, loadedIndex, last>>

(***************************************************************************)
(* Bounds of the model.                                                    *)
(***************************************************************************)
\* handlers are not taken once the move counter has reached MaxMoves
MaxMoves == 5

\* grids given to findPath directly: the number of cells of the board that
\* are not plain floor
MaxBlocked == 2

(***************************************************************************)
(* Types: Cell (line 5), Position (lines 13-16), directions.               *)
(***************************************************************************)
Cell == {"#", " ", "@", "B", "T", "P", "X"}

Direction == {"up", "down", "left", "right"}

NoPos == [row |-> -1, col |-> -1]

Pos(r, c) == [row |-> r, col |-> c]

\* grid.length and grid[0].length
NumRows(g) == Len(g)

NumCols(g) == Len(g[1])

\* grid[r][c] for an in-bounds 0-based position
CellAt(g, r, c) == g[r + 1][c + 1]

\* newGrid[r][c] = v on a copy of g
SetCell(g, r, c, v) == [g EXCEPT ![r + 1][c + 1] = v]

\* all 0-based positions of g, row by row
Positions(g) ==
    IF g = <<>> THEN {}
    ELSE UNION {{Pos(r - 1, c - 1) : c \in 1..Len(g[r])} : r \in 1..Len(g)}

\* the bounds test of lines 81-86, 109-114, 166-170, 202-207, 263-268
InBounds(g, r, c) == r >= 0 /\ r < NumRows(g) /\ c >= 0 /\ c < NumCols(g)

\* the deltas table of lines 70-75 and 252-257, indexed by direction
deltas(direction) ==
    CASE direction = "up"    -> [row |-> -1, col |-> 0]
      [] direction = "down"  -> [row |-> 1,  col |-> 0]
      [] direction = "left"  -> [row |-> 0,  col |-> -1]
      [] direction = "right" -> [row |-> 0,  col |-> 1]

(***************************************************************************)
(* findPlayer (lines 42-51): first '@' or 'P' cell in row-major order.     *)
(***************************************************************************)
PlayerCells(g) ==
    {p \in Positions(g) : CellAt(g, p.row, p.col) \in {"@", "P"}}

findPlayer(g) ==
    IF PlayerCells(g) = {} THEN NoPos
    ELSE CHOOSE p \in PlayerCells(g) :
            \A q \in PlayerCells(g) :
                p.row < q.row \/ (p.row = q.row /\ p.col <= q.col)

(***************************************************************************)
(* checkWin (lines 53-62): the scan row by row, column by column, that     *)
(* returns false at the first plain 'T' and true at the end of the grid.   *)
(***************************************************************************)
\* the scan from cell (row, col) on
\* faulty variant: a goal the player stands on counts as unfilled too
checkWinCountsPlayerOnGoal(newGrid) ==
    \A p \in Positions(newGrid) :
        CellAt(newGrid, p.row, p.col) \notin {"T", "P"}

RECURSIVE checkWinFrom(_, _, _)
checkWinFrom(newGrid, row, col) ==
    IF row >= Len(newGrid) THEN TRUE
    ELSE IF col >= Len(newGrid[row + 1])
         THEN checkWinFrom(newGrid, row + 1, 0)
    ELSE IF CellAt(newGrid, row, col) = "T" THEN FALSE
    ELSE checkWinFrom(newGrid, row, col + 1)

checkWin(newGrid) == checkWinFrom(newGrid, 0, 0)

(***************************************************************************)
(* The cell rewrites of move and moveToCell.                               *)
(***************************************************************************)
\* faulty variant: a box cell counts as empty too
isEmptyCellOrBox(cell) == cell = " " \/ cell = "T" \/ cell = "B"

\* cell === " " || cell === "T"  (lines 98, 120, 174, 212, 238, 273);
\* lines 212, 238 and 273 test its negation
isEmptyCell(cell) == cell = " " \/ cell = "T"

\* faulty variant: the cell the player leaves is not rewritten
vacatedCellStale(currentCell) == currentCell

\* currentCell === "P" ? "T" : " "  (lines 100, 122, 278)
vacatedCell(currentCell) == IF currentCell = "P" THEN "T" ELSE " "

\* faulty variant: the goal under the cell the player enters is forgotten
enteredCellFloor(targetCell) == "@"

\* targetCell === "T" ? "P" : "@"  (lines 101, 279)
enteredCell(targetCell) == IF targetCell = "T" THEN "P" ELSE "@"

\* faulty variant: the goal under the pushed box is forgotten
enteredBoxCellFloor(targetCell) == "@"

\* targetCell === "X" ? "P" : "@"  (line 123)
enteredBoxCell(targetCell) == IF targetCell = "X" THEN "P" ELSE "@"

\* faulty variant: the goal the box lands on is forgotten
pushedBoxCellPlain(boxTargetCell) == "B"

\* boxTargetCell === "T" ? "X" : "B"  (line 124)
pushedBoxCell(boxTargetCell) == IF boxTargetCell = "T" THEN "X" ELSE "B"

(***************************************************************************)
(* The outcome of a handler call: its return value, the branch it took     *)
(* (kind), and the values of grid, moves and isCompleted after the setState*)
(* calls it made (the values it started from where it made none).          *)
(***************************************************************************)
Outcome(ret, kind, g, m, done) ==
    [ret |-> ret, kind |-> kind, grid |-> g, moves |-> m, isCompleted |-> done]

(***************************************************************************)
(* move (lines 64-135), reading grid, moves and isCompleted of the render. *)
(***************************************************************************)
\* faulty variant: the simple step runs the win check too
moveStepWithWinCheck(g, m, done, player, newRow, newCol) ==
    LET targetCell == CellAt(g, newRow, newCol)
        currentCell == CellAt(g, player.row, player.col)
        newGrid == SetCell(SetCell(g, player.row, player.col,
                                   IF currentCell = "P" THEN "T" ELSE " "),
                           newRow, newCol,
                           IF targetCell = "T" THEN "P" ELSE "@")
    IN [ret |-> TRUE, kind |-> "step", grid |-> newGrid, moves |-> m + 1,
        isCompleted |-> IF checkWin(newGrid) THEN TRUE ELSE done]

\* lines 98-104: the simple step
moveStep(g, m, done, player, newRow, newCol) ==
    LET targetCell == CellAt(g, newRow, newCol)
        currentCell == CellAt(g, player.row, player.col)
        newGrid == SetCell(SetCell(g, player.row, player.col,
                                   vacatedCell(currentCell)),
                           newRow, newCol, enteredCell(targetCell))
    IN Outcome(TRUE, "step", newGrid, m + 1, done)

\* faulty variant: every accepted push sets the completion flag
movePushAlwaysCompletes(g, m, done, player, newRow, newCol, bRow, bCol) ==
    LET targetCell == CellAt(g, newRow, newCol)
        boxTargetCell == CellAt(g, bRow, bCol)
        currentCell == CellAt(g, player.row, player.col)
        newGrid ==
            SetCell(SetCell(SetCell(g, player.row, player.col,
                                    IF currentCell = "P" THEN "T" ELSE " "),
                            newRow, newCol,
                            IF targetCell = "X" THEN "P" ELSE "@"),
                    bRow, bCol,
                    IF boxTargetCell = "T" THEN "X" ELSE "B")
    IN [ret |-> TRUE, kind |-> "push", grid |-> newGrid, moves |-> m + 1,
        isCompleted |-> TRUE]

\* lines 120-131: the accepted push
movePush(g, m, done, player, newRow, newCol, boxNewRow, boxNewCol) ==
    LET targetCell == CellAt(g, newRow, newCol)
        boxTargetCell == CellAt(g, boxNewRow, boxNewCol)
        currentCell == CellAt(g, player.row, player.col)
        newGrid ==
            SetCell(SetCell(SetCell(g, player.row, player.col,
                                    vacatedCell(currentCell)),
                            newRow, newCol, enteredBoxCell(targetCell)),
                    boxNewRow, boxNewCol, pushedBoxCell(boxTargetCell))
    IN Outcome(TRUE, "push", newGrid, m + 1,
               IF checkWin(newGrid) THEN TRUE ELSE done)

\* faulty variant: a blocked push is refused only after the player's old cell was
\* rewritten and committed
moveBoxEagerWrite(g, m, done, player, delta, newRow, newCol) ==
    LET boxNewRow == newRow + delta.row
        boxNewCol == newCol + delta.col
        written == SetCell(g, player.row, player.col,
                           vacatedCell(CellAt(g, player.row, player.col)))
    IN IF ~InBounds(g, boxNewRow, boxNewCol)
       THEN Outcome(FALSE, "rejected", written, m, done)
       ELSE IF isEmptyCell(CellAt(g, boxNewRow, boxNewCol))
            THEN movePush(g, m, done, player, newRow, newCol,
                          boxNewRow, boxNewCol)
            ELSE Outcome(FALSE, "rejected", written, m, done)

\* faulty variant: only a wall behind the box blocks the push
moveBoxIntoBox(g, m, done, player, delta, newRow, newCol) ==
    LET boxNewRow == newRow + delta.row
        boxNewCol == newCol + delta.col
    IN IF ~InBounds(g, boxNewRow, boxNewCol)
       THEN Outcome(FALSE, "rejected", g, m, done)
       ELSE IF CellAt(g, boxNewRow, boxNewCol) # "#"
            THEN movePush(g, m, done, player, newRow, newCol,
                          boxNewRow, boxNewCol)
            ELSE Outcome(FALSE, "rejected", g, m, done)

\* lines 105-134: the destination holds a box
moveBox(g, m, done, player, delta, newRow, newCol) ==
    LET boxNewRow == newRow + delta.row
        boxNewCol == newCol + delta.col
    IN IF ~InBounds(g, boxNewRow, boxNewCol)
       THEN Outcome(FALSE, "rejected", g, m, done)
       ELSE IF isEmptyCell(CellAt(g, boxNewRow, boxNewCol))
            THEN movePush(g, m, done, player, newRow, newCol,
                          boxNewRow, boxNewCol)
            ELSE Outcome(FALSE, "rejected", g, m, done)

\* faulty variant: move without the isCompleted guard of line 65
moveWhenCompleted(g, m, done, direction) ==
    LET player == findPlayer(g)
        delta == deltas(direction)
        newRow == player.row + delta.row
        newCol == player.col + delta.col
        rejected == Outcome(FALSE, "rejected", g, m, done)
    IN IF player = NoPos THEN rejected
       ELSE IF ~InBounds(g, newRow, newCol) THEN rejected
       ELSE LET targetCell == CellAt(g, newRow, newCol)
            IN IF targetCell = "#" THEN rejected
               ELSE IF targetCell = " " \/ targetCell = "T"
                    THEN moveStep(g, m, done, player, newRow, newCol)
               ELSE IF targetCell = "B" \/ targetCell = "X"
                    THEN moveBox(g, m, done, player, delta, newRow, newCol)
               ELSE rejected

move(g, m, done, direction) ==
    LET player == findPlayer(g)
        delta == deltas(direction)
        newRow == player.row + delta.row
        newCol == player.col + delta.col
        rejected == Outcome(FALSE, "rejected", g, m, done)
    IN IF done THEN rejected
       ELSE IF player = NoPos THEN rejected
       ELSE IF ~InBounds(g, newRow, newCol) THEN rejected
       ELSE LET targetCell == CellAt(g, newRow, newCol)
            IN IF targetCell = "#" THEN rejected
               ELSE IF isEmptyCell(targetCell)
                    THEN moveStep(g, m, done, player, newRow, newCol)
               ELSE IF targetCell = "B" \/ targetCell = "X"
                    THEN moveBox(g, m, done, player, delta, newRow, newCol)
               ELSE rejected

(***************************************************************************)
(* findPath (lines 137-186): breadth-first search from start over the      *)
(* cells of g, with a FIFO queue of (pos, path) items and a visited set.   *)
(* The visited keys `${row},${col}` are modelled as pairs <<row, col>>.    *)
(***************************************************************************)
\* faulty variant: the four directions are tried in the reverse order
directionsRightFirst ==
    << [dir |-> "right", delta |-> [row |-> 0,  col |-> 1]],
       [dir |-> "left",  delta |-> [row |-> 0,  col |-> -1]],
       [dir |-> "down",  delta |-> [row |-> 1,  col |-> 0]],
       [dir |-> "up",    delta |-> [row |-> -1, col |-> 0]] >>

\* faulty variant: the "down" entry carries the delta of "up"
directionsDownIsUp ==
    << [dir |-> "up",    delta |-> [row |-> -1, col |-> 0]],
       [dir |-> "down",  delta |-> [row |-> -1, col |-> 0]],
       [dir |-> "left",  delta |-> [row |-> 0,  col |-> -1]],
       [dir |-> "right", delta |-> [row |-> 0,  col |-> 1]] >>

\* lines 147-152
directions ==
    << [dir |-> "up",    delta |-> [row |-> -1, col |-> 0]],
       [dir |-> "down",  delta |-> [row |-> 1,  col |-> 0]],
       [dir |-> "left",  delta |-> [row |-> 0,  col |-> -1]],
       [dir |-> "right", delta |-> [row |-> 0,  col |-> 1]] >>

NoPath == [found |-> FALSE, path |-> <<>>]

\* lines 161-182: the for loop over directions, from its i-th iteration on
RECURSIVE expandNode(_, _, _, _, _)
expandNode(g, item, queue, visited, i) ==
    IF i > Len(directions) THEN [queue |-> queue, visited |-> visited]
    ELSE LET dir == directions[i].dir
             delta == directions[i].delta
             newRow == item.pos.row + delta.row
             newCol == item.pos.col + delta.col
             key == <<newRow, newCol>>
         IN IF /\ InBounds(g, newRow, newCol)
               /\ key \notin visited
               /\ isEmptyCell(CellAt(g, newRow, newCol))
            THEN expandNode(g, item,
                            Append(queue, [pos |-> Pos(newRow, newCol),
                                           path |-> Append(item.path, dir)]),
                            visited \cup {key}, i + 1)
            ELSE expandNode(g, item, queue, visited, i + 1)

\* lines 154-185: the while loop
RECURSIVE searchLoop(_, _, _, _)
searchLoop(g, end, queue, visited) ==
    IF queue = <<>> THEN NoPath
    ELSE LET item == Head(queue)
         IN IF item.pos.row = end.row /\ item.pos.col = end.col
            THEN [found |-> TRUE, path |-> item.path]
            ELSE LET next == expandNode(g, item, Tail(queue), visited, 1)
                 IN searchLoop(g, end, next.queue, next.visited)

findPath(g, start, end) ==
    searchLoop(g, end, <<[pos |-> start, path |-> <<>>]>>,
               {<<start.row, start.col>>})

(***************************************************************************)
(* tryPushBox (lines 188-223).                                             *)
(***************************************************************************)
Abs(n) == IF n < 0 THEN -n ELSE n

\* faulty variant: the direction of a box beside the player is inverted
\* (colDiff === -1 gives "right")
tryPushBoxMirrored(g, m, done, boxRow, boxCol) ==
    LET player == findPlayer(g)
        rowDiff == boxRow - player.row
        colDiff == boxCol - player.col
        boxNewRow == boxRow + rowDiff
        boxNewCol == boxCol + colDiff
        direction == IF rowDiff = -1 THEN "up"
                     ELSE IF rowDiff = 1 THEN "down"
                     ELSE IF colDiff = -1 THEN "right"
                     ELSE "left"
        rejected == Outcome(FALSE, "rejected", g, m, done)
    IN IF player = NoPos THEN rejected
       ELSE IF Abs(rowDiff) + Abs(colDiff) # 1 THEN rejected
       ELSE IF ~InBounds(g, boxNewRow, boxNewCol) THEN rejected
       ELSE IF ~isEmptyCell(CellAt(g, boxNewRow, boxNewCol)) THEN rejected
       ELSE move(g, m, done, direction)

tryPushBox(g, m, done, boxRow, boxCol) ==
    LET player == findPlayer(g)
        rowDiff == boxRow - player.row
        colDiff == boxCol - player.col
        boxNewRow == boxRow + rowDiff
        boxNewCol == boxCol + colDiff
        direction == IF rowDiff = -1 THEN "up"
                     ELSE IF rowDiff = 1 THEN "down"
                     ELSE IF colDiff = -1 THEN "left"
                     ELSE "right"
        rejected == Outcome(FALSE, "rejected", g, m, done)
    IN IF player = NoPos THEN rejected
       ELSE IF Abs(rowDiff) + Abs(colDiff) # 1 THEN rejected
       ELSE IF ~InBounds(g, boxNewRow, boxNewCol) THEN rejected
       ELSE IF ~isEmptyCell(CellAt(g, boxNewRow, boxNewCol)) THEN rejected
       ELSE move(g, m, done, direction)

(***************************************************************************)
(* moveToCell (lines 225-288).                                             *)
(***************************************************************************)
\* faulty variant: the replay loop never advances currentPlayer (line 280)
RECURSIVE replayPathStalePlayer(_, _, _, _, _)
replayPathStalePlayer(currentGrid, currentPlayer, moveCount, path, i) ==
    IF i > Len(path) THEN [grid |-> currentGrid, moveCount |-> moveCount]
    ELSE LET delta == deltas(path[i])
             newRow == currentPlayer.row + delta.row
             newCol == currentPlayer.col + delta.col
             stopped == [grid |-> currentGrid, moveCount |-> moveCount]
         IN IF ~InBounds(currentGrid, newRow, newCol) THEN stopped
            ELSE LET cell == CellAt(currentGrid, newRow, newCol)
                     currentCell == CellAt(currentGrid, currentPlayer.row,
                                           currentPlayer.col)
                 IN IF ~isEmptyCell(cell) THEN stopped
                    ELSE replayPathStalePlayer(
                            SetCell(SetCell(currentGrid, currentPlayer.row,
                                            currentPlayer.col,
                                            vacatedCell(currentCell)),
                                    newRow, newCol, enteredCell(cell)),
                            currentPlayer, moveCount + 1, path, i + 1)

\* lines 251-282: the replay loop, from the i-th direction of path on
RECURSIVE replayPath(_, _, _, _, _)
replayPath(currentGrid, currentPlayer, moveCount, path, i) ==
    IF i > Len(path) THEN [grid |-> currentGrid, moveCount |-> moveCount]
    ELSE LET delta == deltas(path[i])
             newRow == currentPlayer.row + delta.row
             newCol == currentPlayer.col + delta.col
             stopped == [grid |-> currentGrid, moveCount |-> moveCount]
         IN IF ~InBounds(currentGrid, newRow, newCol) THEN stopped
            ELSE LET cell == CellAt(currentGrid, newRow, newCol)
                     currentCell == CellAt(currentGrid, currentPlayer.row,
                                           currentPlayer.col)
                 IN IF ~isEmptyCell(cell) THEN stopped
                    ELSE replayPath(
                            SetCell(SetCell(currentGrid, currentPlayer.row,
                                            currentPlayer.col,
                                            vacatedCell(currentCell)),
                                    newRow, newCol, enteredCell(cell)),
                            Pos(newRow, newCol), moveCount + 1, path, i + 1)

\* faulty variant: the walk ends with the win check of the push branch
moveToCellWalkWithWinCheck(g, m, done, player, targetRow, targetCol) ==
    LET found == findPath(g, player, Pos(targetRow, targetCol))
    IN IF ~found.found THEN Outcome(FALSE, "rejected", g, m, done)
       ELSE LET walked == replayPath(g, player, 0, found.path, 1)
            IN IF walked.moveCount > 0
               THEN Outcome(TRUE, "walk", walked.grid, m + walked.moveCount,
                            IF checkWin(walked.grid) THEN TRUE ELSE done)
               ELSE Outcome(FALSE, "rejected", g, m, done)

\* faulty variant: the walk counts as one move (setMoves(moves + 1))
moveToCellWalkCountsOne(g, m, done, player, targetRow, targetCol) ==
    LET found == findPath(g, player, Pos(targetRow, targetCol))
    IN IF ~found.found THEN Outcome(FALSE, "rejected", g, m, done)
       ELSE LET walked == replayPath(g, player, 0, found.path, 1)
            IN IF walked.moveCount > 0
               THEN Outcome(TRUE, "walk", walked.grid, m + 1, done)
               ELSE Outcome(FALSE, "rejected", g, m, done)

\* lines 242-287: the walk to an empty target cell
moveToCellWalk(g, m, done, player, targetRow, targetCol) ==
    LET found == findPath(g, player, Pos(targetRow, targetCol))
    IN IF ~found.found THEN Outcome(FALSE, "rejected", g, m, done)
       ELSE LET walked == replayPath(g, player, 0, found.path, 1)
            IN IF walked.moveCount > 0
               THEN Outcome(TRUE, "walk", walked.grid,
                            m + walked.moveCount, done)
               ELSE Outcome(FALSE, "rejected", g, m, done)

\* faulty variant: moveToCell without the isCompleted guard of line 226
moveToCellWhenCompleted(g, m, done, targetRow, targetCol) ==
    LET player == findPlayer(g)
        targetCell == CellAt(g, targetRow, targetCol)
        rejected == Outcome(FALSE, "rejected", g, m, done)
    IN IF player = NoPos THEN rejected
       ELSE IF targetCell = "B" \/ targetCell = "X"
            THEN tryPushBox(g, m, done, targetRow, targetCol)
       ELSE IF targetCell # " " /\ targetCell # "T" THEN rejected
       ELSE moveToCellWalk(g, m, done, player, targetRow, targetCol)

\* moveToCell returns nothing: ret says whether it called setGrid
moveToCell(g, m, done, targetRow, targetCol) ==
    LET player == findPlayer(g)
        targetCell == CellAt(g, targetRow, targetCol)
        rejected == Outcome(FALSE, "rejected", g, m, done)
    IN IF done THEN rejected
       ELSE IF player = NoPos THEN rejected
       ELSE IF targetCell = "B" \/ targetCell = "X"
            THEN tryPushBox(g, m, done, targetRow, targetCol)
       ELSE IF targetCell # " " /\ targetCell # "T" THEN rejected
       ELSE moveToCellWalk(g, m, done, player, targetRow, targetCol)

(***************************************************************************)
(* The level catalog (the levels prop, lines 7-11 and 18-22).  The data    *)
(* file it is read from is not part of the component; these catalogs hold  *)
(* well-formed levels (rectangular, exactly one player cell).              *)
(***************************************************************************)
Level(id, name, g) == [id |-> id, name |-> name, grid |-> g]

\* a corridor without border walls, two boxes and two goals: a box at the
\* edge, and a box on a goal next to a free goal with a free cell behind it
LevelCorridor ==
    Level(1, "Corridor",
          << <<"B", "@", "X", "T", " ">> >>)

\* the player starts on a goal; boxes that can be pushed, pushed against a
\* wall and against another box; a goal the player can walk over; a detour
LevelYard ==
    Level(2, "Yard",
          << <<" ", " ", "T", " ">>,
             <<"P", "B", " ", "#">>,
             <<" ", "#", "B", "X">> >>)

\* one push solves it; the free row below lets the player walk around
LevelRoom ==
    Level(3, "Room",
          << <<"#", "#", "#", "#", "#">>,
             <<"#", "@", "B", "T", "#">>,
             <<"#", " ", " ", " ", "#">>,
             <<"#", "#", "#", "#", "#">> >>)

\* no box at all: the player can stand on the only goal
LevelGoalOnly ==
    Level(4, "Goal only",
          << <<"#", "#", "#">>,
             <<"#", "@", "T">>,
             <<"#", "#", "#">> >>)

Catalogs ==
    { <<LevelCorridor, LevelYard, LevelRoom>>,
      <<LevelGoalOnly, LevelCorridor>>,
      <<LevelRoom>>,
      <<>> }

(***************************************************************************)
(* History of the last call.                                               *)
(***************************************************************************)
\* op: the handler; dir, row, col: its argument; out: its Outcome;
\* grid, moves, isCompleted, index: the state it was called in
Call(op, dir, row, col, out) ==
    [op |-> op, dir |-> dir, row |-> row, col |-> col,
     ret |-> out.ret, kind |-> out.kind,
     grid |-> grid, moves |-> moves, isCompleted |-> isCompleted,
     index |-> currentLevelIndex]

NoCall ==
    [op |-> "none", dir |-> "none", row |-> -1, col |-> -1,
     ret |-> FALSE, kind |-> "none",
     grid |-> <<>>, moves |-> 0, isCompleted |-> FALSE, index |-> 0]

NoPathCall == [called |-> FALSE, start |-> NoPos, end |-> NoPos,
               found |-> FALSE, path |-> <<>>]

NoWinCall == [called |-> FALSE, result |-> FALSE]

(***************************************************************************)
(* Init: the state after the first render (lines 24-27), with the mount    *)
(* effect scheduled.                                                       *)
(***************************************************************************)
Init ==
    /\ levels \in Catalogs
    /\ currentLevelIndex = 0
    /\ grid = <<>>
    /\ moves = 0
    /\ isCompleted = FALSE
    /\ effectPending = TRUE
    /\ loadedIndex = -1
    /\ last = NoCall
    /\ pathCall = NoPathCall
    /\ winCall = NoWinCall

(***************************************************************************)
(* loadLevel (lines 35-40): setGrid(copy of the template), setMoves(0),    *)
(* setIsCompleted(false).                                                  *)
(***************************************************************************)
loadLevel(levelIndex) ==
    /\ grid' = levels[levelIndex + 1].grid
    /\ moves' = 0
    /\ isCompleted' = FALSE
    /\ loadedIndex' = levelIndex

(***************************************************************************)
(* The useEffect of lines 29-33, run after the render that mounted the     *)
(* component or changed currentLevelIndex.                                 *)
(***************************************************************************)
RunEffect ==
    /\ effectPending
    /\ effectPending' = FALSE
    /\ IF Len(levels) > 0
       THEN /\ loadLevel(currentLevelIndex)
            /\ last' = Call("loadLevel", "none", -1, -1,
                            Outcome(TRUE, "load", grid, moves, isCompleted))
       ELSE UNCHANGED <<grid, moves, isCompleted, loadedIndex, last>>
    /\ UNCHANGED <<levels, currentLevelIndex, pureCalls>>

(***************************************************************************)
(* The handlers.  They are reachable only from the render of lines 346 ff. *)
(* (levels.length > 0, line 338), and React runs a scheduled effect before *)
(* it handles the next press.  The render shows the direction pad only     *)
(* while isCompleted is false (line 471) and the next-level button only    *)
(* when it is true (line 537); the handlers are modelled as callable in    *)
(* every state, which includes every call the render can make.             *)
(***************************************************************************)
CanPress == ~effectPending /\ Len(levels) > 0 /\ moves < MaxMoves

\* faulty variant: the cells are written into the template itself (the
\* grid is the template, not a copy, and is edited in place)
templatesWrittenInPlace(templates, levelIndex, newGrid) ==
    [templates EXCEPT ![levelIndex + 1].grid = newGrid]

\* the stored templates after a handler wrote the cells of newGrid: the
\* writes go to a copy (grid.map((row) => [...row]), lines 96 and 247) of a
\* grid that is itself a copy of the template (line 37), so no template
\* changes
templatesAfterWrite(templates, levelIndex, newGrid) == templates

Apply(out) ==
    /\ grid' = out.grid
    /\ moves' = out.moves
    /\ isCompleted' = out.isCompleted

\* onPress={() => move(direction)}, lines 474-520
Move(direction) ==
    /\ CanPress
    /\ LET out == move(grid, moves, isCompleted, direction)
       IN /\ Apply(out)
          /\ last' = Call("move", direction, -1, -1, out)
    /\ levels' = templatesAfterWrite(levels, loadedIndex, grid')
    /\ UNCHANGED <<currentLevelIndex, effectPending, loadedIndex, pureCalls>>

\* onPress={() => moveToCell(rowIndex, colIndex)}, line 392
MoveToCell(targetRow, targetCol) ==
    /\ CanPress
    /\ Pos(targetRow, targetCol) \in Positions(grid)
    /\ LET out == moveToCell(grid, moves, isCompleted, targetRow, targetCol)
       IN /\ Apply(out)
          /\ last' = Call("moveToCell", "none", targetRow, targetCol, out)
    /\ levels' = templatesAfterWrite(levels, loadedIndex, grid')
    /\ UNCHANGED <<currentLevelIndex, effectPending, loadedIndex, pureCalls>>

\* faulty variant: nextLevel without the test of line 291
NextLevelPastEnd ==
    /\ ~effectPending /\ Len(levels) > 0
    /\ currentLevelIndex' = currentLevelIndex + 1
    /\ effectPending' = TRUE
    /\ last' = Call("nextLevel", "none", -1, -1,
                    Outcome(TRUE, "advance", grid, moves, isCompleted))
    /\ UNCHANGED <<levels, grid, moves, isCompleted, loadedIndex, pureCalls>>

\* faulty variant: nextLevel clears the completion flag itself
NextLevelClearsFlag ==
    /\ ~effectPending /\ Len(levels) > 0
    /\ IF currentLevelIndex < Len(levels) - 1
       THEN /\ currentLevelIndex' = currentLevelIndex + 1
            /\ effectPending' = TRUE
            /\ isCompleted' = FALSE
            /\ last' = Call("nextLevel", "none", -1, -1,
                            Outcome(TRUE, "advance", grid, moves, isCompleted))
       ELSE /\ UNCHANGED <<currentLevelIndex, effectPending, isCompleted>>
            /\ last' = Call("nextLevel", "none", -1, -1,
                            Outcome(FALSE, "rejected", grid, moves,
                                    isCompleted))
    /\ UNCHANGED <<levels, grid, moves, loadedIndex, pureCalls>>

\* nextLevel, lines 290-294
NextLevel ==
    /\ ~effectPending /\ Len(levels) > 0
    /\ IF currentLevelIndex < Len(levels) - 1
       THEN /\ currentLevelIndex' = currentLevelIndex + 1
            /\ effectPending' = TRUE
            /\ last' = Call("nextLevel", "none", -1, -1,
                            Outcome(TRUE, "advance", grid, moves, isCompleted))
       ELSE /\ UNCHANGED <<currentLevelIndex, effectPending>>
            /\ last' = Call("nextLevel", "none", -1, -1,
                            Outcome(FALSE, "rejected", grid, moves,
                                    isCompleted))
    /\ UNCHANGED <<levels, grid, moves, isCompleted, loadedIndex, pureCalls>>

\* resetLevel, lines 296-298
ResetLevel ==
    /\ ~effectPending /\ Len(levels) > 0
    /\ loadLevel(currentLevelIndex)
    /\ last' = Call("resetLevel", "none", -1, -1,
                    Outcome(TRUE, "load", grid, moves, isCompleted))
    /\ UNCHANGED <<levels, currentLevelIndex, effectPending, pureCalls>>

Next ==
    \/ RunEffect
    \/ \E direction \in Direction : Move(direction)
    \/ \E target \in Positions(grid) : MoveToCell(target.row, target.col)
    \/ NextLevel
    \/ ResetLevel

Spec == Init /\ [][Next]_vars

(***************************************************************************)
(* findPath called directly: the grid is PathBoard with at most MaxBlocked *)
(* of its cells made a wall, a box or a goal, and start and end are any    *)
(* two of its positions.  findPath changes no state, so one call per       *)
(* behaviour covers every call.                                            *)
(***************************************************************************)
PathBoard ==
    << <<" ", " ", " ">>,
       <<" ", " ", " ">>,
       <<" ", " ", " ">> >>

PathTags == {"#", "B", "T"}

BoardWith(tagOf) ==
    [r \in DOMAIN PathBoard |->
        [c \in DOMAIN PathBoard[r] |->
            IF Pos(r - 1, c - 1) \in DOMAIN tagOf
            THEN tagOf[Pos(r - 1, c - 1)] ELSE PathBoard[r][c]]]

PathGrids ==
    UNION {{BoardWith(tagOf) : tagOf \in [S -> PathTags]} :
           S \in {T \in SUBSET Positions(PathBoard) :
                      Cardinality(T) <= MaxBlocked}}

PathInit ==
    /\ levels = <<>>
    /\ currentLevelIndex = 0
    /\ grid \in PathGrids
    /\ moves = 0
    /\ isCompleted = FALSE
    /\ effectPending = FALSE
    /\ loadedIndex = -1
    /\ last = NoCall
    /\ pathCall = NoPathCall
    /\ winCall = NoWinCall

FindPath(start, end) ==
    /\ ~pathCall.called
    /\ LET result == findPath(grid, start, end)
       IN pathCall' = [called |-> TRUE, start |-> start, end |-> end,
                       found |-> result.found, path |-> result.path]
    /\ UNCHANGED <<gameVars, winCall>>

PathNext == \E start \in Positions(grid), end \in Positions(grid) :
                FindPath(start, end)

PathSpec == PathInit /\ [][PathNext]_vars

(***************************************************************************)
(* checkWin as a pure function: one call on a grid drawn from the boards   *)
(* with at most MaxBlocked cells of any tag other than floor.              *)
(***************************************************************************)
WinTags == Cell \ {" "}

WinGrids ==
    UNION {{BoardWith(tagOf) : tagOf \in [S -> WinTags]} :
           S \in {T \in SUBSET Positions(PathBoard) :
                      Cardinality(T) <= MaxBlocked}}

WinInit ==
    /\ levels = <<>>
    /\ currentLevelIndex = 0
    /\ grid \in WinGrids
    /\ moves = 0
    /\ isCompleted = FALSE
    /\ effectPending = FALSE
    /\ loadedIndex = -1
    /\ last = NoCall
    /\ pathCall = NoPathCall
    /\ winCall = NoWinCall

CheckWin ==
    /\ ~winCall.called
    /\ winCall' = [called |-> TRUE, result |-> checkWin(grid)]
    /\ UNCHANGED <<gameVars, pathCall>>

WinNext == CheckWin

WinSpec == WinInit /\ [][WinNext]_vars

(***************************************************************************)
(* Vocabulary of the properties, stated on grids directly.                 *)
(***************************************************************************)
TagAt(g, p) == g[p.row + 1][p.col + 1]

OnGrid(g, p) == p \in Positions(g)

Tagged(g, tags) == {p \in Positions(g) : TagAt(g, p) \in tags}

Shifted(p, dir) ==
    CASE dir = "up"    -> Pos(p.row - 1, p.col)
      [] dir = "down"  -> Pos(p.row + 1, p.col)
      [] dir = "left"  -> Pos(p.row, p.col - 1)
      [] dir = "right" -> Pos(p.row, p.col + 1)

\* the player's cell of a grid that has exactly one
ThePlayer(g) == CHOOSE p \in Positions(g) : TagAt(g, p) \in {"@", "P"}

\* grid, moves and isCompleted are what they were when the last call began
SessionUnchanged ==
    /\ grid = last.grid
    /\ moves = last.moves
    /\ isCompleted = last.isCompleted

\* the last call was move(d), made with the player in front of a box
MoveTowardBox ==
    /\ last.op = "move"
    /\ Tagged(last.grid, {"@", "P"}) # {}
    /\ OnGrid(last.grid, Shifted(ThePlayer(last.grid), last.dir))
    /\ TagAt(last.grid, Shifted(ThePlayer(last.grid), last.dir)) \in {"B", "X"}

\* the cell behind that box, seen from the player
FarCell == Shifted(Shifted(ThePlayer(last.grid), last.dir), last.dir)

(***************************************************************************)
(* C1: a rejected move(direction) (it returned false) leaves the grid, the *)
(* move counter and the completion flag exactly as they were.              *)
(***************************************************************************)
C1_RejectedMoveChangesNothing ==
    (last.op = "move" /\ ~last.ret) => SessionUnchanged

\* a move against a wall was rejected
C1_Witness ==
    /\ last.op = "move" /\ ~last.ret
    /\ OnGrid(last.grid, Shifted(ThePlayer(last.grid), last.dir))
    /\ TagAt(last.grid, Shifted(ThePlayer(last.grid), last.dir)) = "#"

(***************************************************************************)
(* C2: once a well-formed level is loaded, the grid has exactly one cell   *)
(* tagged '@' or 'P', whatever handlers have run.                          *)
(***************************************************************************)
C2_SinglePlayer ==
    loadedIndex >= 0 => Cardinality(Tagged(grid, {"@", "P"})) = 1

\* a push in a level entered through nextLevel, after a reset
C2_Witness ==
    /\ loadedIndex >= 1
    /\ last.kind = "push"
    /\ moves >= 2

(***************************************************************************)
(* C3: the goal-bearing coordinates (tags 'T', 'P', 'X') of the grid are   *)
(* those of the template of the level that was loaded.                     *)
(***************************************************************************)
GoalCoords(g) == Tagged(g, {"T", "P", "X"})

C3_GoalCoordsFixed ==
    loadedIndex >= 0 =>
        GoalCoords(grid) = GoalCoords(levels[loadedIndex + 1].grid)

\* a box was pushed off a goal, the player now stands on that goal
C3_Witness ==
    /\ MoveTowardBox /\ last.ret
    /\ TagAt(last.grid, Shifted(ThePlayer(last.grid), last.dir)) = "X"
    /\ TagAt(grid, ThePlayer(grid)) = "P"

(***************************************************************************)
(* C4 (as claimed): whenever the completion flag is true, every goal       *)
(* coordinate holds a box: the grid has no 'T' and no 'P' cell.            *)
(***************************************************************************)
C4_CompletedMeansAllGoalsBoxed ==
    isCompleted => \A p \in GoalCoords(grid) : TagAt(grid, p) = "X"

(***************************************************************************)
(* C5: the completion flag goes from false to true only in a call that     *)
(* pushed a box (move toward a box, or moveToCell on a box cell); a simple *)
(* step and a walk leave the flag as it was, even on a grid without 'T'.   *)
(***************************************************************************)
C5_OnlyPushCompletes ==
    /\ (last.op \in {"move", "moveToCell"} /\ ~last.isCompleted /\ isCompleted)
         => \/ MoveTowardBox
            \/ /\ last.op = "moveToCell"
               /\ TagAt(last.grid, Pos(last.row, last.col)) \in {"B", "X"}
    /\ (last.kind \in {"step", "walk"}) => isCompleted = last.isCompleted

\* a simple step left a grid without any 'T', and the flag is still false
C5_Witness ==
    /\ last.op = "move" /\ last.ret
    /\ ~MoveTowardBox
    /\ Tagged(grid, {"T"}) = {}
    /\ ~isCompleted

(***************************************************************************)
(* C6 (as claimed): if the grid has no 'T' cell, move(direction) is a      *)
(* rejected no-op.                                                         *)
(***************************************************************************)
C6_SolvedGridRejectsMove ==
    (last.op = "move" /\ Tagged(last.grid, {"T"}) = {})
        => (~last.ret /\ SessionUnchanged)

(***************************************************************************)
(* C6 (amended): if the completion flag is true, move(direction) is a      *)
(* rejected no-op: grid, move counter and completion flag are unchanged.   *)
(***************************************************************************)
C6_CompletedRejectsMove ==
    (last.op = "move" /\ last.isCompleted) => (~last.ret /\ SessionUnchanged)

\* move was called on a completed level, toward a free cell
C6_Witness ==
    /\ last.op = "move" /\ last.isCompleted
    /\ OnGrid(last.grid, Shifted(ThePlayer(last.grid), last.dir))
    /\ TagAt(last.grid, Shifted(ThePlayer(last.grid), last.dir)) \in {" ", "T"}

(***************************************************************************)
(* C7: an accepted push by move(direction) adds exactly 1 to the move      *)
(* counter and rewrites exactly three cells: the player's old cell becomes *)
(* 'T' if it was 'P' else ' ', the box's old cell 'P' if it was 'X' else   *)
(* '@', the box's new cell 'X' if it was 'T' else 'B'; when the result has *)
(* no 'T' cell the completion flag is true.                                *)
(***************************************************************************)
PushAccepted ==
    /\ MoveTowardBox
    /\ ~last.isCompleted
    /\ OnGrid(last.grid, FarCell)
    /\ TagAt(last.grid, FarCell) \in {" ", "T"}

C7_PushRewritesThreeCells ==
    PushAccepted =>
        LET old == ThePlayer(last.grid)
            box == Shifted(old, last.dir)
            far == FarCell
        IN /\ last.ret
           /\ moves = last.moves + 1
           /\ Positions(grid) = Positions(last.grid)
           /\ TagAt(grid, old) = IF TagAt(last.grid, old) = "P" THEN "T" ELSE " "
           /\ TagAt(grid, box) = IF TagAt(last.grid, box) = "X" THEN "P" ELSE "@"
           /\ TagAt(grid, far) = IF TagAt(last.grid, far) = "T" THEN "X" ELSE "B"
           /\ \A p \in Positions(grid) \ {old, box, far} :
                    TagAt(grid, p) = TagAt(last.grid, p)
           /\ (Tagged(grid, {"T"}) = {} => isCompleted)

\* a box was pushed from the floor onto a goal and the level is completed
C7_Witness ==
    /\ PushAccepted
    /\ TagAt(last.grid, Shifted(ThePlayer(last.grid), last.dir)) = "B"
    /\ TagAt(last.grid, FarCell) = "T"
    /\ isCompleted

(***************************************************************************)
(* C8: a move(direction) toward a box whose far cell is a wall, another    *)
(* box or outside the grid is rejected and leaves grid and move counter    *)
(* unchanged.                                                              *)
(***************************************************************************)
PushBlocked ==
    /\ MoveTowardBox
    /\ \/ ~OnGrid(last.grid, FarCell)
       \/ TagAt(last.grid, FarCell) \in {"#", "B", "X"}

C8_BlockedPushRejected ==
    PushBlocked => (~last.ret /\ grid = last.grid /\ moves = last.moves)

\* a box was pushed against another box
C8_Witness ==
    /\ PushBlocked
    /\ OnGrid(last.grid, FarCell)
    /\ TagAt(last.grid, FarCell) \in {"B", "X"}

\* a box was pushed against a wall; a box was pushed against the edge
C8_WitnessWall ==
    PushBlocked /\ OnGrid(last.grid, FarCell) /\ TagAt(last.grid, FarCell) = "#"

C8_WitnessEdge == PushBlocked /\ ~OnGrid(last.grid, FarCell)

(***************************************************************************)
(* Vocabulary of the findPath properties.                                  *)
(***************************************************************************)
\* the position reached from start after the first n directions of path
RECURSIVE PositionAfter(_, _, _)
PositionAfter(start, path, n) ==
    IF n = 0 THEN start
    ELSE Shifted(PositionAfter(start, path, n - 1), path[n])

Adjacent(p, q) ==
    \/ p.row = q.row /\ (p.col = q.col + 1 \/ q.col = p.col + 1)
    \/ p.col = q.col /\ (p.row = q.row + 1 \/ q.row = p.row + 1)

\* one more step from the cells of near: a step enters a ' ' or 'T' cell
\* next to the current one
OneStepFrom(g, near) ==
    near \cup {q \in Tagged(g, {" ", "T"}) : \E p \in near : Adjacent(p, q)}

\* n plus the least number of steps from a cell of near to end, -1 if end
\* cannot be reached
RECURSIVE StepsTo(_, _, _, _)
StepsTo(g, near, end, n) ==
    IF end \in near THEN n
    ELSE IF OneStepFrom(g, near) = near THEN -1
    ELSE StepsTo(g, OneStepFrom(g, near), end, n + 1)

\* the least number of steps from start to end; start itself is not tested
Distance(g, start, end) == StepsTo(g, {start}, end, 0)

ManhattanDistance(p, q) ==
    (IF p.row < q.row THEN q.row - p.row ELSE p.row - q.row)
    + (IF p.col < q.col THEN q.col - p.col ELSE p.col - q.col)

(***************************************************************************)
(* C9: a path returned by findPath, replayed from start, enters only cells *)
(* that are on the grid and tagged ' ' or 'T'.                             *)
(***************************************************************************)
C9_PathEntersOnlyEmptyCells ==
    (pathCall.called /\ pathCall.found) =>
        \A n \in 1..Len(pathCall.path) :
            LET p == PositionAfter(pathCall.start, pathCall.path, n)
            IN OnGrid(grid, p) /\ TagAt(grid, p) \in {" ", "T"}

\* a path that had to go around a wall and a box
C9_Witness ==
    /\ pathCall.called /\ pathCall.found
    /\ Tagged(grid, {"#"}) # {} /\ Tagged(grid, {"B"}) # {}
    /\ Len(pathCall.path) > ManhattanDistance(pathCall.start, pathCall.end)

(***************************************************************************)
(* C10: findPath returns a path exactly when end can be reached from start *)
(* through four-connected ' '/'T' cells (start itself exempt); the path    *)
(* ends at end and has the least possible length; otherwise it returns     *)
(* null.                                                                   *)
(***************************************************************************)
C10_PathIsShortestOrNull ==
    pathCall.called =>
        LET d == Distance(grid, pathCall.start, pathCall.end)
        IN IF d = -1 THEN ~pathCall.found
           ELSE /\ pathCall.found
                /\ Len(pathCall.path) = d
                /\ PositionAfter(pathCall.start, pathCall.path, d) = pathCall.end

\* an empty end cell that is walled off: findPath returned null
C10_Witness ==
    /\ pathCall.called /\ ~pathCall.found
    /\ TagAt(grid, pathCall.end) \in {" ", "T"}

\* a shortest path three times as long as the straight line
C10_WitnessDetour ==
    /\ pathCall.called /\ pathCall.found
    /\ Len(pathCall.path) = 6
    /\ ManhattanDistance(pathCall.start, pathCall.end) = 2

\* start = end on a wall cell: the empty path
C10_WitnessStartIsEnd ==
    /\ pathCall.called /\ pathCall.found
    /\ pathCall.start = pathCall.end
    /\ TagAt(grid, pathCall.start) = "#"
    /\ pathCall.path = <<>>

(***************************************************************************)
(* Vocabulary of the moveToCell properties.                                *)
(***************************************************************************)
\* the cell moveToCell was last called on
Target == Pos(last.row, last.col)

\* the last call was moveToCell on a ' ' or 'T' cell
MoveToEmptyCell ==
    /\ last.op = "moveToCell"
    /\ TagAt(last.grid, Target) \in {" ", "T"}

\* the least number of steps from the player to the target on the grid of
\* the last call, -1 if the target cannot be reached
TargetDistance == Distance(last.grid, ThePlayer(last.grid), Target)

(***************************************************************************)
(* C11: on a level that is not completed, moveToCell on a ' ' or 'T' cell  *)
(* at shortest distance n >= 1 from the player applies all n steps: the    *)
(* player is on the target afterwards and the move counter grew by n.      *)
(***************************************************************************)
C11_WalkCompletes ==
    (MoveToEmptyCell /\ ~last.isCompleted /\ TargetDistance >= 1) =>
        /\ ThePlayer(grid) = Target
        /\ moves = last.moves + TargetDistance

\* a walk of three steps or more, around an obstacle
C11_Witness ==
    /\ MoveToEmptyCell /\ ~last.isCompleted
    /\ TargetDistance >= 3
    /\ TargetDistance > ManhattanDistance(ThePlayer(last.grid), Target)

\* the scenario of a clear path of length 3
C11_WitnessThree ==
    /\ MoveToEmptyCell /\ ~last.isCompleted
    /\ TargetDistance = 3
    /\ moves = last.moves + 3

(***************************************************************************)
(* C12: moveToCell on a ' ' or 'T' cell never pushes a box: every cell     *)
(* tagged '#', 'B' or 'X' keeps its tag, only the player's old cell and    *)
(* the cells along the walked path can change, and the completion flag is  *)
(* unchanged.                                                              *)
(***************************************************************************)
\* the cells entered by the path findPath returns for the last call
WalkedCells ==
    LET found == findPath(last.grid, ThePlayer(last.grid), Target)
    IN {PositionAfter(ThePlayer(last.grid), found.path, n) :
            n \in 1..Len(found.path)}

ChangedCells == {p \in Positions(last.grid) : TagAt(grid, p) # TagAt(last.grid, p)}

C12_WalkPushesNothing ==
    MoveToEmptyCell =>
        /\ Positions(grid) = Positions(last.grid)
        /\ \A p \in Tagged(last.grid, {"#", "B", "X"}) :
                TagAt(grid, p) = TagAt(last.grid, p)
        /\ ChangedCells \subseteq ({ThePlayer(last.grid)} \cup WalkedCells)
        /\ isCompleted = last.isCompleted

\* a walk of two steps or more on a grid with boxes, ending on a goal
C12_Witness ==
    /\ MoveToEmptyCell
    /\ moves >= last.moves + 2
    /\ Tagged(last.grid, {"B", "X"}) # {}
    /\ TagAt(last.grid, Target) = "T"

(***************************************************************************)
(* C13: moveToCell changes neither grid, move counter nor completion flag  *)
(* when no step is applied: the target is a wall, the player's own cell or *)
(* a ' '/'T' cell the player cannot reach, or the level is completed.      *)
(***************************************************************************)
NoStepCase ==
    /\ last.op = "moveToCell"
    /\ \/ last.isCompleted
       \/ TagAt(last.grid, Target) = "#"
       \/ Target = ThePlayer(last.grid)
       \/ (TagAt(last.grid, Target) \in {" ", "T"} /\ TargetDistance = -1)

C13_NoStepChangesNothing == NoStepCase => SessionUnchanged

\* an empty cell the player cannot reach was pressed
C13_Witness ==
    /\ last.op = "moveToCell" /\ ~last.isCompleted
    /\ TagAt(last.grid, Target) \in {" ", "T"}
    /\ TargetDistance = -1

\* a wall was pressed; the player's cell was pressed; a free cell next to
\* the player was pressed on a completed level
C13_WitnessWall ==
    last.op = "moveToCell" /\ ~last.isCompleted /\ TagAt(last.grid, Target) = "#"

C13_WitnessOwnCell ==
    last.op = "moveToCell" /\ ~last.isCompleted /\ Target = ThePlayer(last.grid)

C13_WitnessCompleted ==
    /\ MoveToEmptyCell /\ last.isCompleted
    /\ TargetDistance = 1

(***************************************************************************)
(* Vocabulary of the push-by-press properties.                             *)
(***************************************************************************)
\* the last call was moveToCell on a cell holding a box
MoveToBoxCell ==
    /\ last.op = "moveToCell"
    /\ TagAt(last.grid, Target) \in {"B", "X"}

\* the direction from the player to a cell next to it
DirectionTo(from, to) ==
    CHOOSE dir \in Direction : Shifted(from, dir) = to

\* the player is next to the pressed box and the cell behind the box, seen
\* from the player, is on the grid and tagged ' ' or 'T'
BoxCanBePushed ==
    /\ ManhattanDistance(ThePlayer(last.grid), Target) = 1
    /\ LET far == Shifted(Target, DirectionTo(ThePlayer(last.grid), Target))
       IN OnGrid(last.grid, far) /\ TagAt(last.grid, far) \in {" ", "T"}

\* grid, moves and isCompleted are what move(d) yields from the state of
\* the last call, d being the direction from the player to the pressed box
SameAsMoveTowardBox ==
    LET out == move(last.grid, last.moves, last.isCompleted,
                    DirectionTo(ThePlayer(last.grid), Target))
    IN /\ grid = out.grid
       /\ moves = out.moves
       /\ isCompleted = out.isCompleted

(***************************************************************************)
(* C14 (as claimed): moveToCell on a box cell changes state if and only if *)
(* the player is at Manhattan distance 1 from it and the cell on the far   *)
(* side of the box is on the grid and tagged ' ' or 'T'; the result is     *)
(* then that of move(d), d the direction from the player to the box.       *)
(***************************************************************************)
C14_BoxPressPushesIffPushable ==
    MoveToBoxCell =>
        /\ BoxCanBePushed <=> ~SessionUnchanged
        /\ BoxCanBePushed => SameAsMoveTowardBox

(***************************************************************************)
(* C14 (amended): while the completion flag is false, moveToCell on a box  *)
(* cell changes state if and only if the player is at Manhattan distance 1 *)
(* from it and the cell on the far side of the box is on the grid and      *)
(* tagged ' ' or 'T'; the result is then that of move(d), d the direction  *)
(* from the player to the box.  While the flag is true the state is        *)
(* unchanged.                                                              *)
(***************************************************************************)
C14_BoxPressPushesIffPushableAndOpen ==
    MoveToBoxCell =>
        /\ (~last.isCompleted /\ BoxCanBePushed) <=> ~SessionUnchanged
        /\ BoxCanBePushed => SameAsMoveTowardBox

\* a box left of the player was pressed and pushed onto the free cell
C14_Witness ==
    /\ MoveToBoxCell /\ ~last.isCompleted /\ BoxCanBePushed
    /\ DirectionTo(ThePlayer(last.grid), Target) = "left"
    /\ ~SessionUnchanged

\* a box next to the player with a free cell behind it was pressed on a
\* completed level; a box two cells away was pressed; a box next to the
\* player with a wall or a box behind it was pressed
C14_WitnessCompleted ==
    MoveToBoxCell /\ last.isCompleted /\ BoxCanBePushed /\ SessionUnchanged

C14_WitnessFar ==
    /\ MoveToBoxCell /\ ~last.isCompleted
    /\ ManhattanDistance(ThePlayer(last.grid), Target) = 2

C14_WitnessBlocked ==
    /\ MoveToBoxCell /\ ~last.isCompleted
    /\ ManhattanDistance(ThePlayer(last.grid), Target) = 1
    /\ ~BoxCanBePushed

(***************************************************************************)
(* C15: the move counter is 0 right after a level is loaded or reset and   *)
(* never decreases under move and moveToCell; each call adds 0 (rejected)  *)
(* or the number of unit steps it applied.                                 *)
(***************************************************************************)
\* the unit steps of the last call, read off the grids before and after it:
\* none if the grid is unchanged, one for move and for a pressed box, and
\* the length of the way from the old to the new player cell for a walk
StepsApplied ==
    IF grid = last.grid THEN 0
    ELSE IF last.op = "move" \/ MoveToBoxCell THEN 1
    ELSE Distance(last.grid, ThePlayer(last.grid), ThePlayer(grid))

C15_CounterCountsSteps ==
    /\ last.op \in {"loadLevel", "resetLevel"} => moves = 0
    /\ last.op \in {"move", "moveToCell"} =>
            /\ moves >= last.moves
            /\ moves = last.moves + StepsApplied

\* a level was reset after three moves or more
C15_Witness ==
    /\ last.op = "resetLevel"
    /\ last.moves >= 3
    /\ moves = 0

\* a walk added more than one to the counter; a rejected call added nothing
C15_WitnessWalk ==
    last.op = "moveToCell" /\ StepsApplied >= 2 /\ last.moves >= 1

C15_WitnessRejected ==
    last.op \in {"move", "moveToCell"} /\ StepsApplied = 0 /\ moves >= 1

(***************************************************************************)
(* C16: the completion flag is one-way within a level: under move and      *)
(* moveToCell a true flag stays true, and it becomes false again only      *)
(* through loadLevel (the reset, or the load that follows nextLevel).      *)
(***************************************************************************)
C16_FlagClearedOnlyByLoad ==
    /\ (last.isCompleted /\ ~isCompleted) =>
            last.op \in {"loadLevel", "resetLevel"}
    /\ (last.op \in {"move", "moveToCell"} /\ last.isCompleted) => isCompleted

\* a push was tried on a completed level and the flag is still true
C16_Witness ==
    /\ last.op \in {"move", "moveToCell"}
    /\ last.isCompleted /\ isCompleted
    /\ \/ MoveTowardBox
       \/ MoveToBoxCell

\* the flag was cleared by a reset; by the load after nextLevel
C16_WitnessReset == last.op = "resetLevel" /\ last.isCompleted /\ ~isCompleted

C16_WitnessNextLevel ==
    last.op = "loadLevel" /\ last.isCompleted /\ ~isCompleted

(***************************************************************************)
(* C17: no handler changes a stored template: every level of the catalog   *)
(* is the level it was at the start, and resetLevel yields its grid cell   *)
(* for cell, with move counter 0 and completion flag false.                *)
(***************************************************************************)
\* the level of that id as the catalogs are written
OriginalLevel(id) ==
    CHOOSE level \in {LevelCorridor, LevelYard, LevelRoom, LevelGoalOnly} :
        level.id = id

SimpleStepAccepted ==
    /\ last.op = "move" /\ last.ret
    /\ OnGrid(last.grid, Shifted(ThePlayer(last.grid), last.dir))
    /\ TagAt(last.grid, Shifted(ThePlayer(last.grid), last.dir)) \in {" ", "T"}

C19_StepRewritesTwoCells ==
    SimpleStepAccepted =>
        LET from == ThePlayer(last.grid)
            to == Shifted(from, last.dir)
        IN /\ TagAt(grid, from) = IF TagAt(last.grid, from) = "P" THEN "T"
                                  ELSE " "
           /\ TagAt(grid, to) = IF TagAt(last.grid, to) = "T" THEN "P"
                                ELSE "@"
           /\ ChangedCells = {from, to}
           /\ moves = last.moves + 1
           /\ isCompleted = last.isCompleted

\* the player stepped onto a goal
C19_Witness ==
    /\ SimpleStepAccepted
    /\ TagAt(last.grid, Shifted(ThePlayer(last.grid), last.dir)) = "T"
    /\ TagAt(grid, Shifted(ThePlayer(last.grid), last.dir)) = "P"

\* the player stepped off a goal onto plain floor
C19_WitnessOffGoal ==
    /\ SimpleStepAccepted
    /\ TagAt(last.grid, ThePlayer(last.grid)) = "P"
    /\ TagAt(last.grid, Shifted(ThePlayer(last.grid), last.dir)) = " "

(***************************************************************************)
(* C18: checkWin(grid) returns true if and only if no cell of the grid is  *)
(* tagged plain goal 'T'; cells tagged 'P' and 'X' do not make it false.   *)
(***************************************************************************)
C18_CheckWinIffNoPlainGoal ==
    winCall.called => (winCall.result <=> Tagged(grid, {"T"}) = {})

\* checkWin returned true on a grid with a player on a goal and a box on a
\* goal
C18_Witness ==
    /\ winCall.called /\ winCall.result
    /\ Tagged(grid, {"P"}) # {}
    /\ Tagged(grid, {"X"}) # {}

\* checkWin returned false for a plain goal in the last cell of the grid
C18_WitnessLastCell ==
    /\ winCall.called /\ ~winCall.result
    /\ Tagged(grid, {"T"}) = {Pos(2, 2)}

(***************************************************************************)
(* C20: a level change is applied wholesale: once a level has been loaded, *)
(* in every state the grid, the move counter and the completion flag       *)
(* belong to the level at the current level index (the level last loaded   *)
(* is the current one, and the grid has the walls and the goal coordinates *)
(* of its template); in no state has the index advanced while they are     *)
(* still those of the previous level.                                      *)
(***************************************************************************)
C20_SessionBelongsToCurrentLevel ==
    loadedIndex >= 0 =>
        /\ loadedIndex = currentLevelIndex
        /\ LET template == levels[currentLevelIndex + 1].grid
           IN /\ Tagged(grid, {"#"}) = Tagged(template, {"#"})
              /\ GoalCoords(grid) = GoalCoords(template)

(***************************************************************************)
(* C21: among all shortest walkable paths from start to end, findPath      *)
(* returns the lexicographically smallest one under the direction order    *)
(* up < down < left < right.                                               *)
(***************************************************************************)
DirRank(dir) ==
    CASE dir = "up"    -> 1
      [] dir = "down"  -> 2
      [] dir = "left"  -> 3
      [] dir = "right" -> 4

\* some shortest walkable path from start to end goes on from p with dir,
\* p being n - 1 steps along such a path: the step enters a ' ' or 'T' cell
\* from which end is as many steps away as a shortest path has left
OnShortestPath(p, dir, n) ==
    LET q == Shifted(p, dir)
        d == Distance(grid, pathCall.start, pathCall.end)
    IN /\ OnGrid(grid, q)
       /\ TagAt(grid, q) \in {" ", "T"}
       /\ Distance(grid, q, pathCall.end) = d - n

\* a shortest walkable path smaller than the returned one would leave it at
\* some step n with a direction below path[n]; there is none
C21_PathIsLexSmallestShortest ==
    (pathCall.called /\ pathCall.found) =>
        \A n \in 1..Len(pathCall.path) :
            LET p == PositionAfter(pathCall.start, pathCall.path, n - 1)
            IN /\ OnShortestPath(p, pathCall.path[n], n)
               /\ \A dir \in Direction :
                      DirRank(dir) < DirRank(pathCall.path[n]) =>
                          ~OnShortestPath(p, dir, n)

\* the choice was real: at some step another, larger direction also lay on
\* a shortest path
C21_Witness ==
    /\ pathCall.called /\ pathCall.found
    /\ \E n \in 1..Len(pathCall.path) :
          LET p == PositionAfter(pathCall.start, pathCall.path, n - 1)
          IN \E dir \in Direction :
                /\ DirRank(dir) > DirRank(pathCall.path[n])
                /\ OnShortestPath(p, dir, n)

\* from the top left to the bottom right corner of the free board: down,
\* down, right, right
C21_WitnessCorner ==
    /\ pathCall.called /\ pathCall.found
    /\ grid = PathBoard
    /\ pathCall.start = Pos(0, 0) /\ pathCall.end = Pos(2, 2)
    /\ pathCall.path = <<"down", "down", "right", "right">>

(***************************************************************************)
(* C22: in every state in which the completion flag is true the grid has   *)
(* no cell tagged plain goal 'T' (checkWin(grid) is true); this holds      *)
(* until the next load or reset.                                           *)
(***************************************************************************)
C22_CompletedMeansNoPlainGoal ==
    isCompleted => (Tagged(grid, {"T"}) = {} /\ checkWin(grid))

\* calls were made on a completed level after the winning push, and the
\* player stands on a goal that would show as 'T' had it stepped away
C22_Witness ==
    /\ isCompleted
    /\ last.op \in {"move", "moveToCell"} /\ last.isCompleted
    /\ Tagged(grid, {"P"}) # {}

(***************************************************************************)
(* C23: within one level the number of box cells ('B' or 'X') and the set  *)
(* of wall coordinates are what they were at load, whatever move and       *)
(* moveToCell calls were made: a push moves exactly one box by exactly one *)
(* cell in the push direction and never creates, destroys or merges boxes. *)
(***************************************************************************)
Boxes(g) == Tagged(g, {"B", "X"})

\* the last call moved the box in front of the player one cell on in
\* direction dir, onto a cell that held no box, and the player took the
\* place of the box
OneBoxPushed(dir) ==
    LET box == Shifted(ThePlayer(last.grid), dir)
        far == Shifted(box, dir)
    IN /\ box \in Boxes(last.grid)
       /\ OnGrid(last.grid, far)
       /\ far \notin Boxes(last.grid)
       /\ Boxes(grid) = (Boxes(last.grid) \ {box}) \cup {far}
       /\ ThePlayer(grid) = box

C23_BoxesAndWallsConserved ==
    /\ loadedIndex >= 0 =>
            LET template == levels[loadedIndex + 1].grid
            IN /\ Cardinality(Boxes(grid)) = Cardinality(Boxes(template))
               /\ Tagged(grid, {"#"}) = Tagged(template, {"#"})
    /\ last.op \in {"move", "moveToCell"} =>
            \/ Boxes(grid) = Boxes(last.grid)
            \/ /\ last.op = "move"
               /\ OneBoxPushed(last.dir)
            \/ /\ MoveToBoxCell
               /\ ManhattanDistance(ThePlayer(last.grid), Target) = 1
               /\ OneBoxPushed(DirectionTo(ThePlayer(last.grid), Target))

\* a box was pushed, by move, on a level with two boxes; by a press
C23_Witness ==
    /\ last.op = "move"
    /\ Boxes(grid) # Boxes(last.grid)
    /\ Cardinality(Boxes(grid)) = 2

C23_WitnessPress ==
    /\ MoveToBoxCell
    /\ Boxes(grid) # Boxes(last.grid)

(***************************************************************************)
(* C24: while the completion flag is true every move(direction) and every  *)
(* moveToCell(row, col) is a no-op: the grid and the move counter stay     *)
(* what they were at the winning push until resetLevel or a level change   *)
(* reloads the session.                                                    *)
(***************************************************************************)
C24_CompletedFreezesSession ==
    (last.op \in {"move", "moveToCell"} /\ last.isCompleted) =>
        /\ SessionUnchanged
        /\ last.op = "move" => ~last.ret

\* on a completed level a cell two or more steps away was pressed: the
\* player did not walk
C24_Witness ==
    /\ MoveToEmptyCell /\ last.isCompleted
    /\ TargetDistance >= 2
    /\ ThePlayer(grid) # Target

\* on a completed level move(d) was called toward a box with a free cell
\* behind it: the box stayed
C24_WitnessPush ==
    /\ MoveTowardBox /\ last.isCompleted
    /\ OnGrid(last.grid, FarCell)
    /\ TagAt(last.grid, FarCell) \in {" ", "T"}
    /\ Boxes(grid) = Boxes(last.grid)

(***************************************************************************)
(* C25: for a non-empty catalog the current level index is always within   *)
(* 0 .. levels.length - 1 and never decreases: nextLevel adds exactly 1    *)
(* when it is below levels.length - 1 and is a no-op at the last level;    *)
(* resetLevel, move and moveToCell never change it.                        *)
(***************************************************************************)
C25_LevelIndexInRange ==
    Len(levels) > 0 =>
        /\ currentLevelIndex \in 0..(Len(levels) - 1)
        /\ currentLevelIndex >= last.index
        /\ last.op = "nextLevel" =>
                IF last.index < Len(levels) - 1
                THEN currentLevelIndex = last.index + 1
                ELSE currentLevelIndex = last.index /\ SessionUnchanged
        /\ last.op \in {"resetLevel", "move", "moveToCell", "loadLevel"} =>
                currentLevelIndex = last.index

\* nextLevel was called at the last level of a catalog of several levels
C25_Witness ==
    /\ last.op = "nextLevel"
    /\ Len(levels) >= 2
    /\ last.index = Len(levels) - 1
    /\ currentLevelIndex = last.index

\* nextLevel moved on from the second level to the third
C25_WitnessAdvance ==
    /\ last.op = "nextLevel"
    /\ last.index = 1 /\ currentLevelIndex = 2

====
